---- MODULE Spec2Model ----
(***************************************************************************)
(* Help-desk application (src/app.py): the users / tickets / comments      *)
(* store, the per-browser session, and the request handlers.               *)
(*                                                                         *)
(* A text value is a sequence of pieces.  The piece " " is whitespace, at  *)
(* which str.strip() cuts; every other piece is a run of text, which       *)
(* str.lower() maps through LowerPiece.  Row ids are positions in the      *)
(* table's sequence (AUTOINCREMENT, and no handler deletes a row).         *)
(***************************************************************************)
EXTENDS Integers, Sequences, FiniteSets, TLC

\* ---------------------------------------------------------------- bounds
MaxTickets == 1
MaxComments == 1
MaxListed == 3

Clients == {"c1"}
Workers == {"w1", "w2"}

\* ------------------------------------------------------------ text values
Empty == <<>>
Missing == <<"(field not submitted)">>

RECURSIVE LStrip(_)
LStrip(s) == IF s # <<>> /\ Head(s) = " " THEN LStrip(Tail(s)) ELSE s

RECURSIVE RStrip(_)
RStrip(s) == IF s # <<>> /\ s[Len(s)] = " " THEN RStrip(SubSeq(s, 1, Len(s) - 1)) ELSE s

Strip(s) == RStrip(LStrip(s))

LowerPiece(p) ==
    CASE p = "Ana@X.com" -> "ana@x.com"
      [] p = "ADMIN@LOCAL" -> "admin@local"
      [] OTHER -> p

Lower(s) == [i \in 1..Len(s) |-> LowerPiece(s[i])]

FormGet_IgnoresDefault(field, default) == IF field = Missing THEN Empty ELSE field

\* request.form.get(name, default)
FormGet(field, default) == IF field = Missing THEN default ELSE field

\* ------------------------------------------------------- password hashing
\* The one-way function, taken to be free of collisions.
Digest(salt, password) == <<"digest", salt, password>>

generate_password_hash(salt, password) ==
    [salt |-> salt, digest |-> Digest(salt, password)]

check_password_hash(pwhash, password) ==
    Digest(pwhash.salt, password) = pwhash.digest

\* -------------------------------------------------------------- constants
STATUSES == {<<"aberto">>, <<"em andamento">>, <<"fechado">>}

DEPT_MAP ==
    [d \in {<<"Suporte">>, <<"Infra">>, <<"Sistemas">>, <<"Financeiro">>} |->
        CASE d = <<"Suporte">> ->
                {<<"Hardware">>, <<"Software">>, <<"Acesso/Senha">>, <<"Impressoras">>}
          [] d = <<"Infra">> ->
                {<<"Rede/Wi-Fi">>, <<"Servidores">>, <<"Backup">>, <<"VPN">>}
          [] d = <<"Sistemas">> ->
                {<<"ERP">>, <<"CRM">>, <<"BI/Relatorios">>, <<"Integracoes">>}
          [] d = <<"Financeiro">> ->
                {<<"NF/Boletos">>, <<"Pagamentos">>, <<"Cadastro Fornecedor">>}]

ADMIN_EMAIL == <<"admin@local">>
ADMIN_PASSWORD == <<"admin123">>

\* ----------------------------------------------------------------- inputs
\* Identity inputs of the identity specification (SpecId)
IdNames == {<<"Ana">>, <<" ">>}
IdEmails ==
    {<<"ana@x.com">>, <<" ", "Ana@X.com", " ">>, <<"bia@x.com">>, <<"ADMIN@LOCAL">>, Empty}
IdPasswords == {<<"admin123">>, <<"secret1">>, Empty}
IdSalts == {1, 2}

\* Identity inputs of the full specification (Spec): every registered
\* account has the password secret1
Names == {<<"Ana">>, <<" ">>}
Emails == {<<"ana@x.com">>, <<"bia@x.com">>, <<"admin@local">>}
LoginPasswords == {<<"admin123">>, <<"secret1">>}
RegisterPasswords == {<<"secret1">>}
ConfirmPasswords == {<<"secret1">>, Empty}
Salts == {1}

\* Ticket inputs
TitleInputs == {<<"T">>, <<" ", "T">>, <<" ">>}
DescInputs == {<<"D">>, <<" ">>}
TaxonomyInputs ==
    {<<<<"Suporte">>, <<"Hardware">>>>, <<<<"Suporte">>, <<"VPN">>>>, <<<<"RH">>, <<"Hardware">>>>,
     <<Empty, <<"Hardware">>>>, <<<<"Suporte">>, <<" ">>>>}
StatusInputs == {Missing, <<"aberto">>, <<"em andamento">>, <<"fechado", " ">>, <<"bogus">>}
FilterInputs == {Empty, <<"fechado">>, <<"bogus">>}
BodyInputs == {<<"B">>, <<" ">>, Missing}
TicketIds == 1..(MaxTickets + 1)

\* Inputs of the listing specification (SpecL)
ListEmails == {<<"ana@x.com">>, <<"admin@local">>}
ListStatuses == {<<"em andamento">>, <<"fechado">>}
ListFilters ==
    {Missing, Empty, <<" ">>, <<"fechado">>, <<" ", "em andamento">>, <<"bogus">>}
ListTicketIds == 1..MaxListed

\* ------------------------------------------------------------------ state
VARIABLES
    users,      \* table users:    seq of [name, email, password_hash, role]
    tickets,    \* table tickets:  seq of [title, description, status, department, subcategory, user_id]
    comments,   \* table comments: seq of [ticket_id, user_id, body]
    session,    \* session[c]: the user_id held by browser c's session, 0 when it holds none
    threads,    \* threads[w]: the register request worker w is serving (SpecC); idle otherwise
    req,        \* the last request: the browser, the route and the ticket id of its path
    resp        \* the response to the last request

vars == <<users, tickets, comments, session, threads, req, resp>>

\* ------------------------------------------------- requests and responses
Request(c, route, ticket_id) == [client |-> c, route |-> route, ticket_id |-> ticket_id]

NoRows == <<>>

Response(notice, target, ticketRows, commentRows) ==
    [notice |-> notice, target |-> target, tickets |-> ticketRows, comments |-> commentRows]

Redirect(notice, target) == Response(notice, target, NoRows, NoRows)

LoginRedirect_ToHome == Redirect("", "redirect:app_home")

\* login_required: the redirect of a request whose session holds no user_id
LoginRedirect == Redirect("", "redirect:/login?next")

\* ------------------------------------------------------------------ store
\* init_db: schema and migrations change no row; the seed inserts the admin
\* account when no row has its email.
HasEmail(us, email) == \E i \in 1..Len(us) : us[i].email = email

SeedUser_DefaultRole(salt) ==
    [name |-> <<"Administrador">>,
     email |-> ADMIN_EMAIL,
     password_hash |-> generate_password_hash(salt, ADMIN_PASSWORD),
     role |-> "cliente"]

\* init_db: the row of the seed INSERT
SeedUser(salt) ==
    [name |-> <<"Administrador">>,
     email |-> ADMIN_EMAIL,
     password_hash |-> generate_password_hash(salt, ADMIN_PASSWORD),
     role |-> "admin"]

init_db(us, salt) ==
    IF HasEmail(us, ADMIN_EMAIL) THEN us ELSE Append(us, SeedUser(salt))

\* current_user: the row of the session's user, as a sequence of 0 or 1 rows
current_user(us, uid) ==
    IF uid = 0 THEN <<>>
    ELSE IF uid \in 1..Len(us) THEN <<us[uid]>> ELSE <<>>

IsAdmin(us, uid) ==
    LET user == current_user(us, uid) IN user # <<>> /\ user[1].role = "admin"

Idle == [pc |-> "idle", name |-> Empty, email |-> Empty, password |-> Empty]

Init ==
    /\ users = <<>>
    /\ tickets = <<>>
    /\ comments = <<>>
    /\ session = [c \in Clients |-> 0]
    /\ threads = [w \in Workers |-> Idle]
    /\ req = Request("", "", 0)
    /\ resp = Redirect("", "")


\* ============================================================== queries
\* "SELECT * FROM users WHERE email = ?": the ids of the matching rows
UsersByEmail(us, email) == {i \in 1..Len(us) : us[i].email = email}

LoginUser_IgnoresPassword(us, email, password) ==
    LET found == UsersByEmail(us, email) IN
    IF found # {} THEN CHOOSE i \in found : TRUE ELSE 0

LoginUser_UnknownEmailGetsId(us, email, password) ==
    LET found == UsersByEmail(us, email) IN
    IF found # {} /\ check_password_hash(us[CHOOSE i \in found : TRUE].password_hash, password)
    THEN CHOOSE i \in found : TRUE
    ELSE IF found = {} THEN Len(us) + 1 ELSE 0

\* login: the id of the user the credentials identify, 0 when there is none
LoginUser(us, email, password) ==
    LET found == UsersByEmail(us, email) IN
    IF found # {} /\ check_password_hash(us[CHOOSE i \in found : TRUE].password_hash, password)
    THEN CHOOSE i \in found : TRUE
    ELSE 0

\* login: the user a submitted email and password authenticate, 0 when none
Authenticate(us, emailField, password) == LoginUser(us, Lower(Strip(emailField)), password)

TicketRow_SwapsColumns(tks, i) ==
    [id |-> i, title |-> tks[i].description, description |-> tks[i].title,
     status |-> tks[i].status, department |-> tks[i].department,
     subcategory |-> tks[i].subcategory]

\* The columns the ticket SELECTs return
TicketRow(tks, i) ==
    [id |-> i, title |-> tks[i].title, description |-> tks[i].description,
     status |-> tks[i].status, department |-> tks[i].department,
     subcategory |-> tks[i].subcategory]

CanSelectTicket_AnyCaller(us, tks, uid, ticket_id) == ticket_id \in 1..Len(tks)

\* ticket_view's two SELECTs: the rows a caller may read for a ticket id
CanSelectTicket(us, tks, uid, ticket_id) ==
    /\ ticket_id \in 1..Len(tks)
    /\ (IsAdmin(us, uid) \/ tks[ticket_id].user_id = uid)

SelectTicket(us, tks, uid, ticket_id) ==
    IF CanSelectTicket(us, tks, uid, ticket_id) THEN <<TicketRow(tks, ticket_id)>> ELSE <<>>

\* ticket_view: comments JOIN users WHERE ticket_id = ? ORDER BY id ASC
RECURSIVE SelectComments(_, _, _, _)
SelectComments(us, cms, ticket_id, n) ==
    IF n = 0 THEN <<>>
    ELSE SelectComments(us, cms, ticket_id, n - 1) \o
         (IF cms[n].ticket_id = ticket_id /\ cms[n].user_id \in 1..Len(us)
          THEN <<[id |-> n, body |-> cms[n].body,
                  name |-> us[cms[n].user_id].name, role |-> us[cms[n].user_id].role]>>
          ELSE <<>>)

\* tickets, admin_tickets: (request.args.get('status') or '').strip()
StatusFilter(statusArg) == Strip(FormGet(statusArg, Empty))

RECURSIVE SelectOwnTickets_AllOwners(_, _, _, _)
SelectOwnTickets_AllOwners(tks, uid, status, n) ==
    IF n = 0 THEN <<>>
    ELSE (IF status \in STATUSES => tks[n].status = status
          THEN <<TicketRow(tks, n)>> ELSE <<>>)
         \o SelectOwnTickets_AllOwners(tks, uid, status, n - 1)

RECURSIVE SelectOwnTickets_FiltersByAnyValue(_, _, _, _)
SelectOwnTickets_FiltersByAnyValue(tks, uid, status, n) ==
    IF n = 0 THEN <<>>
    ELSE (IF tks[n].user_id = uid /\ (status # Empty => tks[n].status = status)
          THEN <<TicketRow(tks, n)>> ELSE <<>>)
         \o SelectOwnTickets_FiltersByAnyValue(tks, uid, status, n - 1)

\* tickets: WHERE user_id = ? [AND status = ?] ORDER BY id DESC
RECURSIVE SelectOwnTickets(_, _, _, _)
SelectOwnTickets(tks, uid, status, n) ==
    IF n = 0 THEN <<>>
    ELSE (IF tks[n].user_id = uid /\ (status \in STATUSES => tks[n].status = status)
          THEN <<TicketRow(tks, n)>> ELSE <<>>)
         \o SelectOwnTickets(tks, uid, status, n - 1)

\* admin_tickets: tickets JOIN users [WHERE status = ?] ORDER BY id DESC
RECURSIVE SelectAllTickets(_, _, _, _)
SelectAllTickets(us, tks, status, n) ==
    IF n = 0 THEN <<>>
    ELSE (IF tks[n].user_id \in 1..Len(us) /\ (status \in STATUSES => tks[n].status = status)
          THEN <<[id |-> n, title |-> tks[n].title, status |-> tks[n].status,
                  department |-> tks[n].department, subcategory |-> tks[n].subcategory,
                  author_name |-> us[tks[n].user_id].name,
                  author_email |-> us[tks[n].user_id].email]>>
          ELSE <<>>)
         \o SelectAllTickets(us, tks, status, n - 1)

StatusUpdateMatches_AnyCaller(us, tks, uid, ticket_id, i) == i = ticket_id

\* ticket_update_status's two UPDATEs: the rows the WHERE clause matches
StatusUpdateMatches(us, tks, uid, ticket_id, i) ==
    /\ i = ticket_id
    /\ (IsAdmin(us, uid) \/ tks[i].user_id = uid)

UpdateStatus_AllTickets(us, tks, uid, ticket_id, new_status) ==
    [i \in 1..Len(tks) |->
        IF \E j \in 1..Len(tks) : StatusUpdateMatches(us, tks, uid, ticket_id, j)
        THEN [tks[i] EXCEPT !.status = new_status]
        ELSE tks[i]]

UpdateStatus_ClosedIsFinal(us, tks, uid, ticket_id, new_status) ==
    [i \in 1..Len(tks) |->
        IF StatusUpdateMatches(us, tks, uid, ticket_id, i) /\ tks[i].status # <<"fechado">>
        THEN [tks[i] EXCEPT !.status = new_status]
        ELSE tks[i]]

UpdateStatus(us, tks, uid, ticket_id, new_status) ==
    [i \in 1..Len(tks) |->
        IF StatusUpdateMatches(us, tks, uid, ticket_id, i)
        THEN [tks[i] EXCEPT !.status = new_status]
        ELSE tks[i]]

IsValidStatus_AcceptsAny(status) == TRUE

\* ticket_update_status: new_status in {"aberto", "em andamento", "fechado"}
IsValidStatus(status) == status \in STATUSES

CommentAllowed_AnyOwner(us, tks, uid, ticket_id) ==
    \/ IsAdmin(us, uid)
    \/ ticket_id \in 1..Len(tks)

CommentAllowed_AnyUser(us, tks, uid, ticket_id) == TRUE

\* ticket_add_comment: allowed
CommentAllowed(us, tks, uid, ticket_id) ==
    \/ IsAdmin(us, uid)
    \/ \E i \in 1..Len(tks) : i = ticket_id /\ tks[i].user_id = uid

\* ============================================================= handlers
\* Every request first runs before_request, i.e. init_db, on the store; us
\* below is the users table init_db leaves.  seed is the salt of the seed
\* account's hash, salt that of the hash the handler generates.

SessionClear_KeepsUser(sess, c) == sess

\* session.clear()
SessionClear(sess, c) == [sess EXCEPT ![c] = 0]

LoggedIn == Redirect("Login realizado com sucesso.", "redirect:app_home")
InvalidCredentials == Redirect("Credenciais invalidas.", "render:login.html")

\* POST /login
Login(c, emailField, password, seed) ==
    LET us == init_db(users, seed)
        uid == Authenticate(us, emailField, password)
    IN  /\ users' = us
        /\ IF uid # 0
           THEN /\ session' = [SessionClear(session, c) EXCEPT ![c] = uid]
                /\ resp' = LoggedIn
           ELSE /\ session' = session
                /\ resp' = InvalidCredentials
        /\ req' = Request(c, "login", 0)
        /\ UNCHANGED <<tickets, comments, threads>>

NormalizeEmail_KeepsCase(emailField) == Strip(emailField)

\* register: request.form.get("email", "").strip().lower()
NormalizeEmail(emailField) == Lower(Strip(emailField))

AccountCreated == Redirect("Conta criada. Faca login.", "redirect:/login")
EmailTaken == Redirect("E-mail ja cadastrado.", "render:register.html")
FieldsMissing == Redirect("Preencha todos os campos.", "render:register.html")

\* register's body on the users table us: the table and the response it leaves
RegisterOutcome(us, nameField, emailField, password, salt) ==
    LET name == Strip(nameField)
        email == NormalizeEmail(emailField)
    IN  IF name = Empty \/ email = Empty \/ password = Empty
        THEN [users |-> us, resp |-> FieldsMissing]
        ELSE IF HasEmail(us, email)   \* sqlite3.IntegrityError: users.email is UNIQUE
        THEN [users |-> us, resp |-> EmailTaken]
        ELSE [users |-> Append(us, [name |-> name,
                                    email |-> email,
                                    password_hash |-> generate_password_hash(salt, password),
                                    role |-> "cliente"]),
              resp |-> AccountCreated]

\* POST /register
Register(c, nameField, emailField, password, seed, salt) ==
    LET out == RegisterOutcome(init_db(users, seed), nameField, emailField, password, salt)
    IN  /\ users' = out.users
        /\ resp' = out.resp
        /\ req' = Request(c, "register", 0)
        /\ UNCHANGED <<tickets, comments, session, threads>>

\* GET /logout
Logout(c, seed) ==
    /\ users' = init_db(users, seed)
    /\ IF session[c] = 0
       THEN /\ session' = session
            /\ resp' = LoginRedirect
       ELSE /\ session' = SessionClear(session, c)
            /\ resp' = Redirect("Sessao encerrada.", "redirect:/login")
    /\ req' = Request(c, "logout", 0)
    /\ UNCHANGED <<tickets, comments, threads>>

SetName_AllUsers(us, uid, name) == [i \in 1..Len(us) |-> [us[i] EXCEPT !.name = name]]

\* profile_update_name: UPDATE users SET name = ? WHERE id = ?
SetName(us, uid, name) ==
    [i \in 1..Len(us) |-> IF i = uid THEN [us[i] EXCEPT !.name = name] ELSE us[i]]

NameUpdated == Redirect("Nome atualizado.", "redirect:profile")
NameInvalid == Redirect("Nome invalido.", "redirect:profile")

\* POST /profile/name
ProfileUpdateName(c, nameField, seed) ==
    LET us == init_db(users, seed)
        name == Strip(nameField)
    IN  /\ IF session[c] = 0
           THEN /\ users' = us
                /\ resp' = LoginRedirect
           ELSE IF name = Empty
           THEN /\ users' = us
                /\ resp' = NameInvalid
           ELSE /\ users' = SetName(us, session[c], name)
                /\ resp' = NameUpdated
        /\ req' = Request(c, "profile_update_name", 0)
        /\ UNCHANGED <<tickets, comments, session, threads>>

SetPasswordHash_KeepsOld(us, uid, pwhash) == us

SetPasswordHash_AllUsers(us, uid, pwhash) ==
    [i \in 1..Len(us) |-> [us[i] EXCEPT !.password_hash = pwhash]]

\* profile_update_password's UPDATE
SetPasswordHash(us, uid, pwhash) ==
    [i \in 1..Len(us) |-> IF i = uid THEN [us[i] EXCEPT !.password_hash = pwhash] ELSE us[i]]

PasswordUpdated == Redirect("Senha atualizada.", "redirect:profile")

PasswordMismatch == Redirect("Nova senha nao confere.", "redirect:profile")
PasswordIncorrect == Redirect("Senha atual incorreta.", "redirect:profile")

\* profile_update_password's body for session user uid on the users table us:
\* the table and the response it leaves
PasswordOutcome(us, uid, current, new, new2, salt) ==
    LET user == current_user(us, uid)
    IN  IF new = Empty \/ new # new2
        THEN [users |-> us, resp |-> PasswordMismatch]
        ELSE IF user = <<>> \/ ~check_password_hash(user[1].password_hash, current)
        THEN [users |-> us, resp |-> PasswordIncorrect]
        ELSE [users |-> SetPasswordHash(us, uid, generate_password_hash(salt, new)),
              resp |-> PasswordUpdated]

\* POST /profile/password
ProfileUpdatePassword(c, current, new, new2, seed, salt) ==
    LET us == init_db(users, seed)
        out == PasswordOutcome(us, session[c], current, new, new2, salt)
    IN  /\ IF session[c] = 0
           THEN /\ users' = us
                /\ resp' = LoginRedirect
           ELSE /\ users' = out.users
                /\ resp' = out.resp
        /\ req' = Request(c, "profile_update_password", 0)
        /\ UNCHANGED <<tickets, comments, session, threads>>

\* GET /tickets
Tickets(c, statusArg, seed) ==
    LET status == StatusFilter(statusArg) IN
    /\ users' = init_db(users, seed)
    /\ IF session[c] = 0
       THEN resp' = LoginRedirect
       ELSE resp' = Response("", "render:tickets.html",
                             SelectOwnTickets(tickets, session[c], status, Len(tickets)),
                             NoRows)
    /\ req' = Request(c, "tickets", 0)
    /\ UNCHANGED <<tickets, comments, session, threads>>

TicketCreated == Redirect("Chamado criado com sucesso.", "redirect:tickets")

TicketFieldsMissing ==
    Redirect("Preencha titulo, setor e subcategoria.", "render:ticket_new.html")

TicketFieldsEmpty_IgnoresDescription(title, desc, dept, subc) ==
    title = Empty \/ dept = Empty \/ subc = Empty

\* ticket_new: not title or not desc or not dept or not subc
TicketFieldsEmpty(title, desc, dept, subc) ==
    title = Empty \/ desc = Empty \/ dept = Empty \/ subc = Empty

\* POST /tickets/novo
TicketNew(c, titleField, descField, deptField, subcField, seed) ==
    LET title == Strip(titleField)
        desc == Strip(descField)
        dept == Strip(deptField)
        subc == Strip(subcField)
    IN  /\ users' = init_db(users, seed)
        /\ IF session[c] = 0
           THEN /\ tickets' = tickets
                /\ resp' = LoginRedirect
           ELSE IF TicketFieldsEmpty(title, desc, dept, subc)
           THEN /\ tickets' = tickets
                /\ resp' = TicketFieldsMissing
           ELSE /\ tickets' = Append(tickets, [title |-> title,
                                          description |-> desc,
                                          status |-> <<"aberto">>,
                                          department |-> dept,
                                          subcategory |-> subc,
                                          user_id |-> session[c]])
                /\ resp' = TicketCreated
        /\ req' = Request(c, "ticket_new", 0)
        /\ UNCHANGED <<comments, session, threads>>

NotFound == Redirect("Chamado nao encontrado.", "redirect:tickets")

\* GET /tickets/<ticket_id>
TicketView(c, ticket_id, seed) ==
    LET us == init_db(users, seed)
        t == SelectTicket(us, tickets, session[c], ticket_id)
    IN  /\ users' = us
        /\ IF session[c] = 0
           THEN resp' = LoginRedirect
           ELSE IF t = <<>>
           THEN resp' = NotFound
           ELSE resp' = Response("", "render:ticket_view.html", t,
                                 SelectComments(us, comments, ticket_id, Len(comments)))
        /\ req' = Request(c, "ticket_view", ticket_id)
        /\ UNCHANGED <<tickets, comments, session, threads>>

StatusUpdated == Redirect("Status atualizado.", "redirect:ticket_view")
StatusInvalid == Redirect("Status invalido.", "redirect:ticket_view")

\* POST /tickets/<ticket_id>/status
TicketUpdateStatus(c, ticket_id, statusField, seed) ==
    LET us == init_db(users, seed)
        new_status == Strip(FormGet(statusField, <<"aberto">>))
    IN  /\ users' = us
        /\ IF session[c] = 0
           THEN /\ tickets' = tickets
                /\ resp' = LoginRedirect
           ELSE IF ~IsValidStatus(new_status)
           THEN /\ tickets' = tickets
                /\ resp' = StatusInvalid
           ELSE /\ tickets' = UpdateStatus(us, tickets, session[c], ticket_id, new_status)
                /\ resp' = StatusUpdated
        /\ req' = Request(c, "ticket_update_status", ticket_id)
        /\ UNCHANGED <<comments, session, threads>>

CommentBody_Untrimmed(bodyField) == FormGet(bodyField, Empty)

\* ticket_add_comment: (request.form.get("body") or "").strip()
CommentBody(bodyField) == Strip(FormGet(bodyField, Empty))

CommentEmpty == Redirect("Comentario vazio.", "redirect:ticket_view")
CommentForbidden == Redirect("Voce nao pode comentar neste chamado.", "redirect:tickets")
CommentAdded == Redirect("", "redirect:ticket_view")

\* POST /tickets/<ticket_id>/comments
TicketAddComment(c, ticket_id, bodyField, seed) ==
    LET us == init_db(users, seed)
        body == CommentBody(bodyField)
    IN  /\ users' = us
        /\ IF session[c] = 0
           THEN /\ comments' = comments
                /\ resp' = LoginRedirect
           ELSE IF body = Empty
           THEN /\ comments' = comments
                /\ resp' = CommentEmpty
           ELSE IF ~CommentAllowed(us, tickets, session[c], ticket_id)
           THEN /\ comments' = comments
                /\ resp' = CommentForbidden
           ELSE /\ Len(comments) < MaxComments
                /\ comments' = Append(comments, [ticket_id |-> ticket_id,
                                                 user_id |-> session[c],
                                                 body |-> body])
                /\ resp' = CommentAdded
        /\ req' = Request(c, "ticket_add_comment", ticket_id)
        /\ UNCHANGED <<tickets, session, threads>>

\* admin_required: the flash, then redirect(url_for("index")); no endpoint of
\* the application is named index, so url_for raises werkzeug's BuildError
AdminOnly == Redirect("Acesso restrito ao admin.", "error:BuildError(index)")

\* GET /admin/tickets
AdminTickets(c, statusArg, seed) ==
    LET us == init_db(users, seed)
        status == StatusFilter(statusArg)
    IN  /\ users' = us
        /\ IF session[c] = 0
           THEN resp' = LoginRedirect
           ELSE IF ~IsAdmin(us, session[c])
           \* admin_required: url_for("index") names no endpoint of the application
           THEN resp' = AdminOnly
           ELSE resp' = Response("", "render:admin_tickets.html",
                                 SelectAllTickets(us, tickets, status, Len(tickets)),
                                 NoRows)
        /\ req' = Request(c, "admin_tickets", 0)
        /\ UNCHANGED <<tickets, comments, session, threads>>

\* ================================================= the full specification
DoLogin ==
    \E c \in Clients, e \in Emails, p \in LoginPasswords, seed \in Salts : Login(c, e, p, seed)

DoRegister ==
    \E c \in Clients, n \in Names, e \in Emails \cup {Empty}, p \in RegisterPasswords \cup {Empty},
       seed \in Salts, salt \in Salts :
        Register(c, n, e, p, seed, salt)

DoLogout == \E c \in Clients, seed \in Salts : Logout(c, seed)

DoProfileUpdateName ==
    \E c \in Clients, n \in Names, seed \in Salts : ProfileUpdateName(c, n, seed)

DoProfileUpdatePassword ==
    \E c \in Clients, cur \in RegisterPasswords, new \in RegisterPasswords,
       new2 \in ConfirmPasswords, seed \in Salts, salt \in Salts :
        ProfileUpdatePassword(c, cur, new, new2, seed, salt)

DoTickets == \E c \in Clients, s \in FilterInputs, seed \in Salts : Tickets(c, s, seed)

DoTicketNew ==
    \E c \in Clients, t \in TitleInputs, d \in DescInputs, x \in TaxonomyInputs, seed \in Salts :
        TicketNew(c, t, d, x[1], x[2], seed) /\ Len(tickets') <= MaxTickets

DoTicketView == \E c \in Clients, id \in TicketIds, seed \in Salts : TicketView(c, id, seed)

DoTicketUpdateStatus ==
    \E c \in Clients, id \in TicketIds, s \in StatusInputs, seed \in Salts :
        TicketUpdateStatus(c, id, s, seed)

DoTicketAddComment ==
    \E c \in Clients, id \in TicketIds, b \in BodyInputs, seed \in Salts :
        TicketAddComment(c, id, b, seed)

DoAdminTickets ==
    \E c \in Clients, s \in FilterInputs, seed \in Salts : AdminTickets(c, s, seed)

Next ==
    \/ DoLogin
    \/ DoRegister
    \/ DoLogout
    \/ DoProfileUpdateName
    \/ DoProfileUpdatePassword
    \/ DoTickets
    \/ DoTicketNew
    \/ DoTicketView
    \/ DoTicketUpdateStatus
    \/ DoTicketAddComment
    \/ DoAdminTickets

Spec == Init /\ [][Next]_vars

\* ============================================= the identity specification
\* The handlers of the identity and session service, on all identity inputs.
IdLogin ==
    \E c \in Clients, e \in IdEmails, p \in IdPasswords, seed \in IdSalts : Login(c, e, p, seed)

IdRegister ==
    \E c \in Clients, n \in IdNames, e \in IdEmails, p \in IdPasswords,
       seed \in IdSalts, salt \in IdSalts :
        Register(c, n, e, p, seed, salt)

IdLogout == \E c \in Clients, seed \in IdSalts : Logout(c, seed)

IdProfileUpdateName ==
    \E c \in Clients, n \in IdNames, seed \in IdSalts : ProfileUpdateName(c, n, seed)

IdProfileUpdatePassword ==
    \E c \in Clients, cur \in IdPasswords, new \in IdPasswords, new2 \in IdPasswords,
       seed \in IdSalts, salt \in IdSalts :
        ProfileUpdatePassword(c, cur, new, new2, seed, salt)

NextId ==
    \/ IdLogin
    \/ IdRegister
    \/ IdLogout
    \/ IdProfileUpdateName
    \/ IdProfileUpdatePassword

SpecId == Init /\ [][NextId]_vars

\* ============================================= the listing specification
\* The two ticket lists over stores of up to MaxListed tickets.
LsLogin ==
    \E c \in Clients, e \in ListEmails, p \in LoginPasswords, seed \in Salts :
        Login(c, e, p, seed)

LsRegister ==
    \E c \in Clients, e \in ListEmails, p \in RegisterPasswords, seed \in Salts, salt \in Salts :
        Register(c, <<"Ana">>, e, p, seed, salt)

LsLogout == \E c \in Clients, seed \in Salts : Logout(c, seed)

LsTicketNew ==
    \E c \in Clients, seed \in Salts :
        /\ TicketNew(c, <<"T">>, <<"D">>, <<"Suporte">>, <<"Hardware">>, seed)
        /\ Len(tickets') <= MaxListed

LsTicketUpdateStatus ==
    \E c \in Clients, id \in ListTicketIds, s \in ListStatuses, seed \in Salts :
        TicketUpdateStatus(c, id, s, seed)

LsTickets == \E c \in Clients, f \in ListFilters, seed \in Salts : Tickets(c, f, seed)

LsAdminTickets == \E c \in Clients, f \in ListFilters, seed \in Salts : AdminTickets(c, f, seed)

NextL ==
    \/ LsLogin
    \/ LsRegister
    \/ LsLogout
    \/ LsTicketNew
    \/ LsTicketUpdateStatus
    \/ LsTickets
    \/ LsAdminTickets

SpecL == Init /\ [][NextL]_vars

\* =============================================== the frame specification
\* The handlers that write tickets and comments, over stores of up to
\* MaxListed tickets and MaxComments comments.
FrLogin ==
    \E c \in Clients, e \in ListEmails, p \in LoginPasswords, seed \in Salts :
        Login(c, e, p, seed)

FrRegister ==
    \E c \in Clients, e \in ListEmails, p \in RegisterPasswords, seed \in Salts, salt \in Salts :
        Register(c, <<"Ana">>, e, p, seed, salt)

FrTicketNew ==
    \E c \in Clients, seed \in Salts :
        /\ TicketNew(c, <<"T">>, <<"D">>, <<"Suporte">>, <<"Hardware">>, seed)
        /\ Len(tickets') <= MaxListed

FrTicketUpdateStatus ==
    \E c \in Clients, id \in ListTicketIds, s \in {<<"fechado">>, <<"bogus">>}, seed \in Salts :
        TicketUpdateStatus(c, id, s, seed)

FrTicketAddComment ==
    \E c \in Clients, id \in ListTicketIds, seed \in Salts :
        TicketAddComment(c, id, <<"B">>, seed)

NextF ==
    \/ FrLogin
    \/ FrRegister
    \/ FrTicketNew
    \/ FrTicketUpdateStatus
    \/ FrTicketAddComment

SpecF == Init /\ [][NextF]_vars

\* =========================================== the concurrent specification
\* Register requests served by concurrent workers, one store statement per
\* step: init_db's seed SELECT, init_db's seed INSERT, register's INSERT.
\* A write statement and its commit are one step.
RawIntegrityError == Redirect("", "error:sqlite3.IntegrityError")

BeginRegister(w, nameField, emailField, password) ==
    /\ threads[w].pc = "idle"
    /\ threads' = [threads EXCEPT ![w] = [pc |-> "init_db_select", name |-> nameField,
                                          email |-> emailField, password |-> password]]
    /\ UNCHANGED <<users, tickets, comments, session, req, resp>>

\* init_db: SELECT 1 FROM users WHERE email = 'admin@local'
InitDbSelect(w) ==
    /\ threads[w].pc = "init_db_select"
    /\ threads' = [threads EXCEPT ![w].pc =
                      IF HasEmail(users, ADMIN_EMAIL) THEN "handler" ELSE "init_db_insert"]
    /\ UNCHANGED <<users, tickets, comments, session, req, resp>>

\* init_db: the seed INSERT; its IntegrityError is caught nowhere
InitDbInsert(w, seed) ==
    /\ threads[w].pc = "init_db_insert"
    /\ IF HasEmail(users, ADMIN_EMAIL)
       THEN /\ threads' = [threads EXCEPT ![w] = Idle]
            /\ req' = Request(w, "register", 0)
            /\ resp' = RawIntegrityError
            /\ users' = users
       ELSE /\ threads' = [threads EXCEPT ![w].pc = "handler"]
            /\ users' = Append(users, SeedUser(seed))
            /\ UNCHANGED <<req, resp>>
    /\ UNCHANGED <<tickets, comments, session>>

\* register: the INSERT and the response
RegisterHandler(w, salt) ==
    /\ threads[w].pc = "handler"
    /\ LET out == RegisterOutcome(users, threads[w].name, threads[w].email,
                                  threads[w].password, salt)
       IN  /\ users' = out.users
           /\ resp' = out.resp
    /\ req' = Request(w, "register", 0)
    /\ threads' = [threads EXCEPT ![w] = Idle]
    /\ UNCHANGED <<tickets, comments, session>>

DoBeginRegister ==
    \E w \in Workers, n \in IdNames, e \in IdEmails, p \in RegisterPasswords :
        BeginRegister(w, n, e, p)

DoInitDbSelect == \E w \in Workers : InitDbSelect(w)

DoInitDbInsert == \E w \in Workers, seed \in Salts : InitDbInsert(w, seed)

DoRegisterHandler == \E w \in Workers, salt \in Salts : RegisterHandler(w, salt)

NextC ==
    \/ DoBeginRegister
    \/ DoInitDbSelect
    \/ DoInitDbInsert
    \/ DoRegisterHandler

SpecC == Init /\ [][NextC]_vars

\* =================================== the concurrent password specification
\* profile_update_password requests of one session served by concurrent
\* workers, one store statement per step: the SELECT of the password hash,
\* then the UPDATE with its commit.  The session is bound by a login, whose
\* init_db leaves the seed account, so init_db changes nothing in the
\* requests that follow.  A worker keeps the record of the request it served
\* last (the users table when it began, the salt of its hash, its response).
PwCurrent == {<<"admin123">>, <<"secret1">>}
PwNew == {<<"secret1">>, <<"secret2">>}

PwLogin ==
    \E c \in Clients, p \in PwCurrent, seed \in Salts : Login(c, ADMIN_EMAIL, p, seed)

BeginPassword(w, c, current, new) ==
    /\ threads[w].pc \in {"idle", "done"}
    /\ session[c] # 0
    /\ threads' = [threads EXCEPT ![w] =
                      [pc |-> "select", client |-> c, uid |-> session[c], current |-> current,
                       new |-> new, row |-> <<>>, start |-> users, salt |-> 0,
                       resp |-> Redirect("", "")]]
    /\ UNCHANGED <<users, tickets, comments, session, req, resp>>

\* profile_update_password: SELECT password_hash FROM users WHERE id = ?
PasswordSelect(w) ==
    /\ threads[w].pc = "select"
    /\ threads' = [threads EXCEPT ![w].pc = "update",
                                  ![w].row = current_user(users, threads[w].uid)]
    /\ UNCHANGED <<users, tickets, comments, session, req, resp>>

\* profile_update_password: the check of the row read, the UPDATE, the response
PasswordUpdate(w, salt) ==
    /\ threads[w].pc = "update"
    /\ LET t == threads[w]
           ok == t.row # <<>> /\ check_password_hash(t.row[1].password_hash, t.current)
           r == IF ok THEN PasswordUpdated ELSE PasswordIncorrect
       IN  /\ users' = IF ok
                       THEN SetPasswordHash(users, t.uid, generate_password_hash(salt, t.new))
                       ELSE users
           /\ resp' = r
           /\ req' = Request(t.client, "profile_update_password", 0)
           /\ threads' = [threads EXCEPT ![w].pc = "done", ![w].salt = salt, ![w].resp = r]
    /\ UNCHANGED <<tickets, comments, session>>

DoBeginPassword ==
    \E w \in Workers, c \in Clients, cur \in PwCurrent, new \in PwNew :
        BeginPassword(w, c, cur, new)

DoPasswordSelect == \E w \in Workers : PasswordSelect(w)

DoPasswordUpdate == \E w \in Workers, salt \in Salts : PasswordUpdate(w, salt)

NextP ==
    \/ PwLogin
    \/ DoBeginPassword
    \/ DoPasswordSelect
    \/ DoPasswordUpdate

SpecP == Init /\ [][NextP]_vars

\* ================================================================ claims
\* The session user of the last request and what it may do
Caller == session[req.client]

CallerIsStranger ==
    /\ Caller # 0
    /\ ~IsAdmin(users, Caller)
    /\ req.ticket_id \in 1..Len(tickets)
    /\ tickets[req.ticket_id].user_id # Caller

\* C1: a ticket_view request by a non-admin user for a ticket another user
\* owns is answered with the not-found notice and the redirect to the
\* ticket list, with no ticket row and no comment row.
C1_ViewOfForeignTicketIsNotFound ==
    (req.route = "ticket_view" /\ CallerIsStranger) => resp = NotFound

C1_Witness ==
    /\ req.route = "ticket_view"
    /\ CallerIsStranger
    /\ \E k \in 1..Len(comments) : comments[k].ticket_id = req.ticket_id

\* C2: a step changes the status of ticket i only when it is a
\* ticket_update_status request for i whose session user owns i or is admin;
\* no step removes a ticket.
C2_StatusChangesOnlyByOwnerOrAdmin ==
    [][/\ Len(tickets') >= Len(tickets)
       /\ \A i \in 1..Len(tickets) :
            tickets'[i].status # tickets[i].status =>
                /\ req'.route = "ticket_update_status"
                /\ req'.ticket_id = i
                /\ session[req'.client] # 0
                /\ \/ IsAdmin(users', session[req'.client])
                   \/ tickets[i].user_id = session[req'.client]]_vars

C2_Witness ==
    /\ req.route = "ticket_update_status"
    /\ CallerIsStranger
    /\ resp = StatusUpdated
    /\ tickets[req.ticket_id].status = <<"aberto">>

\* C3: a ticket_update_status request by a non-admin user for a ticket
\* another user owns is not answered with the success outcome.
C3_UpdateOfForeignTicketIsForbidden ==
    (req.route = "ticket_update_status" /\ CallerIsStranger) => resp # StatusUpdated

\* C4: every stored ticket has a department of DEPT_MAP and a subcategory
\* listed for that department.
C4_SubcategoryBelongsToDepartment ==
    \A i \in 1..Len(tickets) :
        /\ tickets[i].department \in DOMAIN DEPT_MAP
        /\ tickets[i].subcategory \in DEPT_MAP[tickets[i].department]

\* C5: every ticket's status is one of the three values, a new ticket has
\* status aberto, and a ticket_update_status request of a logged-in caller
\* whose status value (trimmed) is none of the three is answered with the
\* invalid-status notice and changes no ticket.
C5_StatusIsAlwaysValid ==
    [][/\ \A i \in 1..Len(tickets') : tickets'[i].status \in STATUSES
       /\ Len(tickets') > Len(tickets) =>
            /\ Len(tickets') = Len(tickets) + 1
            /\ tickets'[Len(tickets')].status = <<"aberto">>
       /\ req'.route = "ticket_update_status" =>
            \A c \in Clients, id \in TicketIds, s \in StatusInputs \ {Missing}, seed \in Salts :
                (TicketUpdateStatus(c, id, s, seed) /\ session[c] # 0 /\ Strip(s) \notin STATUSES)
                    => (resp' = StatusInvalid /\ tickets' = tickets)]_vars

C5_Witness ==
    /\ req.route = "ticket_update_status"
    /\ resp = StatusInvalid
    /\ IsAdmin(users, Caller)
    /\ req.ticket_id \in 1..Len(tickets)
    /\ tickets[req.ticket_id].status = <<"fechado">>

\* C6: a ticket_update_status request for an existing ticket by its owner or
\* an admin, with a status value that is one of the three, leaves the ticket
\* with that status and is answered with the success notice, whatever the
\* ticket's status was.
C6_AnyTransitionIsAccepted ==
    [][req'.route = "ticket_update_status" =>
       \A c \in Clients, id \in TicketIds, s \in StatusInputs \ {Missing}, seed \in Salts :
         ( /\ TicketUpdateStatus(c, id, s, seed)
           /\ session[c] # 0
           /\ id \in 1..Len(tickets)
           /\ (IsAdmin(users', session[c]) \/ tickets[id].user_id = session[c])
           /\ Strip(s) \in STATUSES ) =>
                (tickets'[id].status = Strip(s) /\ resp' = StatusUpdated)]_vars

C6_Witness ==
    /\ req.route = "ticket_update_status"
    /\ resp = StatusUpdated
    /\ Caller # 0
    /\ ~IsAdmin(users, Caller)
    /\ req.ticket_id \in 1..Len(tickets)
    /\ tickets[req.ticket_id].user_id = Caller
    /\ tickets[req.ticket_id].status = <<"em andamento">>

\* C7: no two stored users have the same email, every stored email is
\* trimmed and lowercase, and a register INSERT (name and password given)
\* whose normalized email is already stored is answered with the
\* duplicate-email notice and adds no row; this under concurrent register
\* requests interleaved statement by statement.
C7_EmailsUniqueAndNormalized ==
    [][/\ \A i, j \in 1..Len(users') : users'[i].email = users'[j].email => i = j
       /\ \A i \in 1..Len(users') :
            Strip(users'[i].email) = users'[i].email /\ Lower(users'[i].email) = users'[i].email
       /\ \A w \in Workers, salt \in Salts :
            ( /\ RegisterHandler(w, salt)
              /\ Strip(threads[w].name) # Empty
              /\ threads[w].password # Empty
              /\ HasEmail(users, Lower(Strip(threads[w].email))) ) =>
                    (users' = users /\ resp' = EmailTaken)]_vars

C7_Witness ==
    /\ req.route = "register"
    /\ resp = EmailTaken
    /\ \E i \in 1..Len(users) : users[i].email = <<"ana@x.com">>
    /\ \E w \in Workers :
        /\ threads[w].pc = "handler"
        /\ threads[w].email = <<" ", "Ana@X.com", " ">>

\* C8 as stated: after a successful profile_update_password(current, new,
\* new), authenticating with current fails and with new succeeds.
C8_OldPasswordStopsWorking ==
    [][req'.route = "profile_update_password" =>
       \A c \in Clients, cur \in IdPasswords, new \in IdPasswords,
          seed \in IdSalts, salt \in IdSalts :
            (ProfileUpdatePassword(c, cur, new, new, seed, salt) /\ resp' = PasswordUpdated) =>
                LET email == users'[session[c]].email IN
                /\ Authenticate(users', email, cur) = 0
                /\ Authenticate(users', email, new) = session[c]]_vars

\* C8 amended: after a successful profile_update_password(current, new, new),
\* authenticating with new succeeds, and authenticating with current fails
\* when current differs from new.
C8_NewPasswordReplacesOld ==
    [][req'.route = "profile_update_password" =>
       \A c \in Clients, cur \in IdPasswords, new \in IdPasswords,
          seed \in IdSalts, salt \in IdSalts :
            (ProfileUpdatePassword(c, cur, new, new, seed, salt) /\ resp' = PasswordUpdated) =>
                LET email == users'[session[c]].email IN
                /\ cur # new => Authenticate(users', email, cur) = 0
                /\ Authenticate(users', email, new) = session[c]]_vars

C8_Witness ==
    /\ req.route = "profile_update_password"
    /\ resp = PasswordUpdated
    /\ IsAdmin(users, Caller)
    /\ Authenticate(users, users[Caller].email, ADMIN_PASSWORD) = 0
    /\ Authenticate(users, users[Caller].email, <<"secret1">>) = Caller

\* C9: a login request binds the browser's session to user U exactly when
\* the submitted email, trimmed and lowercased, is U's stored email and the
\* password verifies against U's stored hash; then the session holds U
\* whatever it held before, otherwise the response is the invalid-credentials
\* notice and every session is as it was.  No other step binds a session to
\* a user.
C9_LoginBindsOnlyOnValidCredentials ==
    [][/\ \A c \in Clients :
            (session'[c] # session[c] /\ session'[c] # 0) =>
                (req'.route = "login" /\ req'.client = c)
       /\ req'.route = "login" =>
            \A c \in Clients, e \in IdEmails, p \in IdPasswords, seed \in IdSalts :
                Login(c, e, p, seed) =>
                    LET ok == {u \in 1..Len(users') :
                                  /\ users'[u].email = Lower(Strip(e))
                                  /\ check_password_hash(users'[u].password_hash, p)}
                    IN  /\ \A d \in Clients \ {c} : session'[d] = session[d]
                        /\ IF ok # {}
                           THEN session'[c] \in ok /\ resp' = LoggedIn
                           ELSE session' = session /\ resp' = InvalidCredentials]_vars

C9_Witness ==
    /\ req.route = "login"
    /\ resp = LoggedIn
    /\ Caller # 0
    /\ ~IsAdmin(users, Caller)
    /\ users[Caller].email = <<"ana@x.com">>

\* C10: a logout request leaves the browser's session without a user and is
\* answered with a redirect to the login page; a logout that follows a
\* logout of the same browser changes neither the sessions nor the store.
C10_LogoutIsIdempotent ==
    [][req'.route = "logout" =>
       \A c \in Clients, seed \in IdSalts :
            Logout(c, seed) =>
                /\ session'[c] = 0
                /\ resp'.target \in {"redirect:/login", "redirect:/login?next"}
                /\ (req.route = "logout" /\ req.client = c) =>
                        /\ session' = session
                        /\ users' = users
                        /\ tickets' = tickets
                        /\ comments' = comments]_vars

C10_Witness ==
    /\ req.route = "logout"
    /\ resp = LoginRedirect
    /\ session[req.client] = 0
    /\ Len(users) > 1

\* The non-admin session user of the last request owns the ticket of its path
CallerIsOwner ==
    /\ Caller # 0
    /\ ~IsAdmin(users, Caller)
    /\ req.ticket_id \in 1..Len(tickets)
    /\ tickets[req.ticket_id].user_id = Caller

\* C11 as stated: a successful ticket_new stores the submitted title,
\* description, department and subcategory as they were submitted, with
\* status aberto and the session user as owner.
C11_TicketStoresSubmittedValues ==
    [][(req'.route = "ticket_new" /\ resp' = TicketCreated) =>
       \A c \in Clients, t \in TitleInputs, d \in DescInputs, x \in TaxonomyInputs, seed \in Salts :
         TicketNew(c, t, d, x[1], x[2], seed) =>
            tickets'[Len(tickets')] =
                [title |-> t, description |-> d, status |-> <<"aberto">>,
                 department |-> x[1], subcategory |-> x[2], user_id |-> session[c]]]_vars

\* C11 amended: a successful ticket_new stores the submitted title,
\* description, department and subcategory with leading and trailing
\* whitespace removed, status aberto and the session user as owner; no step
\* changes the title, description, department, subcategory or owner of a
\* stored ticket, and no step of a non-admin user who is not the owner
\* changes its status; a ticket_view of the ticket by its owner returns
\* exactly the stored title, description, department, subcategory and status.
C11_TicketRoundTripsTrimmedValues ==
    [][/\ (req'.route = "ticket_new" /\ resp' = TicketCreated) =>
            \A c \in Clients, t \in TitleInputs, d \in DescInputs, x \in TaxonomyInputs,
               seed \in Salts :
                TicketNew(c, t, d, x[1], x[2], seed) =>
                    /\ Len(tickets') = Len(tickets) + 1
                    /\ tickets'[Len(tickets')] =
                        [title |-> Strip(t), description |-> Strip(d), status |-> <<"aberto">>,
                         department |-> Strip(x[1]), subcategory |-> Strip(x[2]),
                         user_id |-> session[c]]
       /\ \A i \in 1..Len(tickets) :
            /\ i <= Len(tickets')
            /\ [tickets'[i] EXCEPT !.status = tickets[i].status] = tickets[i]
            /\ tickets'[i].status # tickets[i].status =>
                    (IsAdmin(users', session[req'.client])
                        \/ tickets[i].user_id = session[req'.client])
       /\ (req'.route = "ticket_view" /\ session'[req'.client] # 0
            /\ req'.ticket_id \in 1..Len(tickets')
            /\ tickets'[req'.ticket_id].user_id = session'[req'.client]) =>
                LET t == tickets'[req'.ticket_id] IN
                resp'.tickets = <<[id |-> req'.ticket_id, title |-> t.title,
                                   description |-> t.description, status |-> t.status,
                                   department |-> t.department,
                                   subcategory |-> t.subcategory]>>]_vars

C11_Witness ==
    /\ req.route = "ticket_view"
    /\ CallerIsOwner
    /\ Len(resp.tickets) = 1
    /\ resp.tickets[1].title = <<"T">>
    /\ resp.tickets[1].status = <<"aberto">>
    /\ \E u \in 1..Len(users) : u # Caller /\ users[u].role = "cliente"

\* C12: every stored comment's ticket_id is the id of a stored ticket.
C12_CommentsBelongToTickets ==
    \A k \in 1..Len(comments) : comments[k].ticket_id \in 1..Len(tickets)

\* C13: every stored comment on a stored ticket has the ticket's owner or a
\* user of role admin as its author; a step adds at most one comment, only
\* as a ticket_add_comment request whose session user is the author, and
\* changes no stored comment; a ticket_add_comment request of a non-admin
\* user for a ticket another user owns adds no comment.
C13_CommentAuthorIsOwnerOrAdmin ==
    [][/\ \A k \in 1..Len(comments') :
            comments'[k].ticket_id \in 1..Len(tickets') =>
                \/ comments'[k].user_id = tickets'[comments'[k].ticket_id].user_id
                \/ IsAdmin(users', comments'[k].user_id)
       /\ \A k \in 1..Len(comments) : k <= Len(comments') /\ comments'[k] = comments[k]
       /\ Len(comments') > Len(comments) =>
            /\ Len(comments') = Len(comments) + 1
            /\ req'.route = "ticket_add_comment"
            /\ session[req'.client] # 0
            /\ comments'[Len(comments')].user_id = session[req'.client]
            /\ comments'[Len(comments')].ticket_id = req'.ticket_id
       /\ ( /\ req'.route = "ticket_add_comment"
            /\ session[req'.client] # 0
            /\ ~IsAdmin(users', session[req'.client])
            /\ req'.ticket_id \in 1..Len(tickets)
            /\ tickets[req'.ticket_id].user_id # session[req'.client] ) =>
                comments' = comments]_vars

C13_Witness ==
    /\ req.route = "ticket_add_comment"
    /\ CallerIsStranger
    /\ resp = CommentForbidden
    /\ \E k \in 1..Len(comments) :
        /\ comments[k].ticket_id = req.ticket_id
        /\ comments[k].user_id = tickets[req.ticket_id].user_id
        /\ ~IsAdmin(users, comments[k].user_id)

\* C14: a ticket_add_comment request of a logged-in user whose body is empty
\* after trimming (empty, all whitespace, or not submitted) is answered with
\* the empty-comment notice and adds no comment; every stored comment's body
\* is non-empty after trimming.
C14_CommentBodyIsNeverEmpty ==
    [][/\ \A k \in 1..Len(comments') : Strip(comments'[k].body) # Empty
       /\ req'.route = "ticket_add_comment" =>
            \A c \in Clients, id \in TicketIds, b \in BodyInputs, seed \in Salts :
                ( /\ TicketAddComment(c, id, b, seed)
                  /\ session[c] # 0
                  /\ (b = Missing \/ Strip(b) = Empty) ) =>
                        (resp' = CommentEmpty /\ comments' = comments)]_vars

C14_Witness ==
    /\ req.route = "ticket_add_comment"
    /\ resp = CommentEmpty
    /\ CallerIsOwner
    /\ Len(comments) = 0

\* The responses a request for a ticket id that is not stored can get
MissingTicketOutcomes ==
    {LoginRedirect, NotFound, StatusUpdated, StatusInvalid, CommentEmpty, CommentForbidden,
     CommentAdded}

\* C15: in every reachable state, for a non-admin session user, a ticket id
\* i another user owns and a ticket id j that is not stored, each of
\* ticket_view, ticket_update_status and ticket_add_comment answers the
\* request for i with the response (notice, target, rows) it answers the
\* request for j with, the other inputs being the same, and changes neither
\* tickets nor comments.
C15_ForeignTicketLooksLikeMissing ==
    \A c \in Clients :
        (session[c] # 0 /\ ~IsAdmin(users, session[c])) =>
            \A i \in 1..Len(tickets), j \in TicketIds \ (1..Len(tickets)) :
                tickets[i].user_id # session[c] =>
                    \A seed \in Salts, r \in MissingTicketOutcomes :
                        /\ (ENABLED (TicketView(c, j, seed) /\ resp' = r))
                            => (ENABLED (TicketView(c, i, seed) /\ resp' = r))
                        /\ \A s \in StatusInputs :
                            (ENABLED (TicketUpdateStatus(c, j, s, seed) /\ resp' = r))
                                => (ENABLED (/\ TicketUpdateStatus(c, i, s, seed)
                                             /\ resp' = r
                                             /\ tickets' = tickets))
                        /\ \A b \in BodyInputs :
                            (ENABLED (TicketAddComment(c, j, b, seed) /\ resp' = r))
                                => (ENABLED (/\ TicketAddComment(c, i, b, seed)
                                             /\ resp' = r
                                             /\ comments' = comments))

C15_Witness ==
    /\ req.route = "ticket_update_status"
    /\ CallerIsStranger
    /\ resp = StatusInvalid
    /\ \E j \in TicketIds : j \notin 1..Len(tickets)
    /\ \E k \in 1..Len(comments) : comments[k].ticket_id = req.ticket_id

\* The ids of a sequence of rows
RowIds(rows) == {rows[k].id : k \in 1..Len(rows)}

StrictlyDescending(rows) == \A k \in 1..(Len(rows) - 1) : rows[k].id > rows[k + 1].id

\* C16: a tickets request of a logged-in user u (admin or not) with no
\* status argument returns exactly the tickets u owns, and with a status
\* argument that is, trimmed, one of the three statuses exactly the tickets u
\* owns that have that status; the rows are in strictly descending id order
\* and carry the stored title, description, status, department, subcategory.
C16_TicketsListsOwnTickets ==
    [][req'.route = "tickets" =>
       \A c \in Clients, f \in ListFilters, seed \in Salts :
         ( /\ Tickets(c, f, seed)
           /\ session[c] # 0
           /\ (f = Missing \/ Strip(f) \in STATUSES) ) =>
            LET rows == resp'.tickets IN
            /\ RowIds(rows) =
                {i \in 1..Len(tickets) :
                    /\ tickets[i].user_id = session[c]
                    /\ f # Missing => tickets[i].status = Strip(f)}
            /\ StrictlyDescending(rows)
            /\ \A k \in 1..Len(rows) :
                rows[k] = [id |-> rows[k].id,
                           title |-> tickets[rows[k].id].title,
                           description |-> tickets[rows[k].id].description,
                           status |-> tickets[rows[k].id].status,
                           department |-> tickets[rows[k].id].department,
                           subcategory |-> tickets[rows[k].id].subcategory]]_vars

C16_Witness ==
    /\ req.route = "tickets"
    /\ IsAdmin(users, Caller)
    /\ Len(resp.tickets) = 2
    /\ resp.tickets[1].id > resp.tickets[2].id
    /\ resp.tickets[1].status = <<"fechado">>
    /\ resp.tickets[2].status = <<"fechado">>
    /\ \E i \in 1..Len(tickets) :
        tickets[i].user_id # Caller /\ tickets[i].status = <<"fechado">>

\* The rows of the tickets in S, by descending id, as tickets returns them
RECURSIVE OwnRowsOf(_, _)
OwnRowsOf(S, n) ==
    IF n = 0 THEN <<>>
    ELSE (IF n \in S
          THEN <<[id |-> n, title |-> tickets[n].title,
                  description |-> tickets[n].description, status |-> tickets[n].status,
                  department |-> tickets[n].department,
                  subcategory |-> tickets[n].subcategory]>>
          ELSE <<>>) \o OwnRowsOf(S, n - 1)

\* The rows of the tickets in S, by descending id, as admin_tickets returns them
RECURSIVE AllRowsOf(_, _)
AllRowsOf(S, n) ==
    IF n = 0 THEN <<>>
    ELSE (IF n \in S
          THEN <<[id |-> n, title |-> tickets[n].title, status |-> tickets[n].status,
                  department |-> tickets[n].department,
                  subcategory |-> tickets[n].subcategory,
                  author_name |-> users[tickets[n].user_id].name,
                  author_email |-> users[tickets[n].user_id].email]>>
          ELSE <<>>) \o AllRowsOf(S, n - 1)

\* C17: in every reachable state, a tickets request of a logged-in user, and
\* an admin_tickets request of an admin, with a status argument that is not,
\* trimmed, one of the three statuses (empty, blank or any other value) gets
\* the rendered list with exactly the rows the same request without a status
\* argument gets.
C17_InvalidFilterIsNoFilter ==
    \A c \in Clients :
        session[c] # 0 =>
            \A seed \in Salts :
                /\ \E S \in SUBSET (1..Len(tickets)) :
                    ENABLED (Tickets(c, Missing, seed) /\ resp'.tickets = OwnRowsOf(S, Len(tickets)))
                /\ IsAdmin(users, session[c]) =>
                    \E S \in SUBSET (1..Len(tickets)) :
                        ENABLED (/\ AdminTickets(c, Missing, seed)
                                 /\ resp'.tickets = AllRowsOf(S, Len(tickets)))
                /\ \A f \in ListFilters, S \in SUBSET (1..Len(tickets)) :
                    (f # Missing /\ Strip(f) \notin STATUSES) =>
                        /\ (ENABLED (/\ Tickets(c, Missing, seed)
                                     /\ resp'.tickets = OwnRowsOf(S, Len(tickets))))
                            => (ENABLED (/\ Tickets(c, f, seed)
                                         /\ resp' = Response("", "render:tickets.html",
                                                             OwnRowsOf(S, Len(tickets)), NoRows)))
                        /\ (IsAdmin(users, session[c])
                            /\ ENABLED (/\ AdminTickets(c, Missing, seed)
                                        /\ resp'.tickets = AllRowsOf(S, Len(tickets))))
                            => (ENABLED (/\ AdminTickets(c, f, seed)
                                         /\ resp' = Response("", "render:admin_tickets.html",
                                                             AllRowsOf(S, Len(tickets)), NoRows)))

C17_Witness ==
    /\ req.route = "tickets"
    /\ Caller # 0
    /\ ~IsAdmin(users, Caller)
    /\ Len(resp.tickets) = 2
    /\ resp.tickets[1].status # resp.tickets[2].status
    /\ Len(tickets) = 3

\* The targets of the redirects the handlers return
RedirectTargets ==
    {"redirect:/login?next", "redirect:/login", "redirect:app_home", "redirect:profile",
     "redirect:tickets", "redirect:ticket_view"}

\* C18: the response to an admin_tickets request of an admin is the rendered
\* list of all tickets, or of all tickets of one status, by descending id;
\* the response to one of a logged-in user who is not admin has no ticket
\* row and is a redirect.
C18_AdminListOnlyForAdmin ==
    (req.route = "admin_tickets" /\ Caller # 0) =>
        IF IsAdmin(users, Caller)
        THEN /\ resp.target = "render:admin_tickets.html"
             /\ StrictlyDescending(resp.tickets)
             /\ \E f \in STATUSES \cup {Missing} :
                    RowIds(resp.tickets) =
                        {i \in 1..Len(tickets) : f # Missing => tickets[i].status = f}
        ELSE /\ resp.tickets = NoRows
             /\ resp.target \in RedirectTargets

\* The ids of the users of role admin
Admins(us) == {i \in 1..Len(us) : us[i].role = "admin"}

\* C19: after every request exactly one stored user has role admin, and its
\* email is admin@local; no step removes a user or changes a stored user's
\* role; a successful register request adds a user of role cliente, and
\* every other user a step adds is the seed account.
C19_SeedIsTheOnlyAdmin ==
    [][/\ Cardinality(Admins(users')) = 1
       /\ \A i \in Admins(users') : users'[i].email = ADMIN_EMAIL
       /\ \A i \in 1..Len(users) : i <= Len(users') /\ users'[i].role = users[i].role
       /\ (req'.route = "register" /\ resp' = AccountCreated) =>
            /\ Len(users') > Len(users)
            /\ users'[Len(users')].role = "cliente"
            /\ users'[Len(users')].email # ADMIN_EMAIL
       /\ \A i \in (Len(users) + 1)..(Len(users') - 1) : users'[i] \in {SeedUser(salt) : salt \in IdSalts}
       /\ Len(users') > Len(users) =>
            \/ req'.route = "register" /\ resp' = AccountCreated
            \/ users'[Len(users')] \in {SeedUser(salt) : salt \in IdSalts}]_vars

C19_Witness ==
    /\ req.route = "profile_update_password"
    /\ resp = PasswordUpdated
    /\ Caller # 0
    /\ ~IsAdmin(users, Caller)
    /\ Len(users) = 3
    /\ Cardinality(Admins(users)) = 1

\* The users table and the two responses that serving the request of worker
\* a and then the request of worker b, each as a whole, leaves from the
\* users table us
SerialOutcome(us, a, b) ==
    LET ta == threads[a]
        tb == threads[b]
        first == PasswordOutcome(us, ta.uid, ta.current, ta.new, ta.new, ta.salt)
        second == PasswordOutcome(first.users, tb.uid, tb.current, tb.new, tb.new, tb.salt)
    IN  [users |-> second.users, respA |-> first.resp, respB |-> second.resp]

\* C20: when two profile_update_password requests that began on the same
\* users table have both completed, their responses and the users table are
\* those that serving the two requests one after the other, in one of the
\* two orders, leaves.
C20_PasswordChangesAreSerializable ==
    \A a, b \in Workers :
        ( /\ a # b
          /\ threads[a].pc = "done"
          /\ threads[b].pc = "done"
          /\ threads[a].start = threads[b].start ) =>
            \E o \in {<<a, b>>, <<b, a>>} :
                LET serial == SerialOutcome(threads[a].start, o[1], o[2]) IN
                /\ users = serial.users
                /\ threads[o[1]].resp = serial.respA
                /\ threads[o[2]].resp = serial.respB

\* C21: a ticket_new request of a logged-in user whose title, description,
\* department or subcategory is empty after trimming is answered with the
\* fill-in-the-fields notice and stores no ticket; a register request whose
\* name or email is empty after trimming, or whose password is empty, is
\* answered with the fill-in-all-fields notice and leaves the users table as
\* init_db leaves it.  Stated by contraposition: a step that is not so
\* answered, or stores a row, is no such request.
C21_EmptyFieldsAreRejected ==
    [][/\ (req'.route = "ticket_new" /\ ~(resp' = TicketFieldsMissing /\ tickets' = tickets)) =>
            \A c \in Clients, t \in TitleInputs, d \in DescInputs, x \in TaxonomyInputs,
               seed \in Salts :
                ( /\ session[c] # 0
                  /\ \/ Strip(t) = Empty
                     \/ Strip(d) = Empty
                     \/ Strip(x[1]) = Empty
                     \/ Strip(x[2]) = Empty ) =>
                        ~TicketNew(c, t, d, x[1], x[2], seed)
       /\ \A seed \in Salts :
            (req'.route = "register" /\ ~(resp' = FieldsMissing /\ users' = init_db(users, seed))) =>
                \A c \in Clients, n \in Names, e \in Emails \cup {Empty},
                   p \in RegisterPasswords \cup {Empty}, salt \in Salts :
                    (Strip(n) = Empty \/ Strip(e) = Empty \/ p = Empty) =>
                        ~Register(c, n, e, p, seed, salt)]_vars

C21_Witness ==
    /\ req.route = "ticket_new"
    /\ resp = TicketFieldsMissing
    /\ Caller # 0
    /\ ~IsAdmin(users, Caller)
    /\ Len(tickets) = 0

\* The users table us2 is us with only the password hash of user uid replaced
OnlyHashOfUserChanged(us, us2, uid) ==
    /\ Len(us2) = Len(us)
    /\ \A i \in 1..Len(us) :
        IF i = uid
        THEN [us2[i] EXCEPT !.password_hash = us[i].password_hash] = us[i]
        ELSE us2[i] = us[i]

\* C22 as stated: in every reachable state a profile_update_password request
\* of a logged-in user is answered with the mismatch notice when new differs
\* from the confirmation, and with the wrong-password notice when they are
\* equal and current does not verify against the stored hash, the users
\* table unchanged in both cases; when it is answered with the success
\* notice, only the caller's own hash is replaced.
C22_PasswordFailuresAsStated ==
    \A c \in Clients :
        session[c] # 0 =>
            \A cur \in IdPasswords, new \in IdPasswords, new2 \in IdPasswords,
               seed \in IdSalts, salt \in IdSalts :
                ENABLED (/\ ProfileUpdatePassword(c, cur, new, new2, seed, salt)
                         /\ IF new # new2
                            THEN resp' = PasswordMismatch /\ users' = users
                            ELSE IF ~check_password_hash(users[session[c]].password_hash, cur)
                            THEN resp' = PasswordIncorrect /\ users' = users
                            ELSE resp' = PasswordUpdated =>
                                    OnlyHashOfUserChanged(users, users', session[c]))

\* C22 amended: the request is answered with the mismatch notice when new
\* differs from the confirmation or is empty, and with the wrong-password
\* notice when new equals the confirmation, is not empty, and current does
\* not verify against the stored hash, the users table unchanged in both
\* cases; when it is answered with the success notice, only the caller's own
\* hash is replaced.
C22_PasswordFailuresLeaveHash ==
    \A c \in Clients :
        session[c] # 0 =>
            \A cur \in IdPasswords, new \in IdPasswords, new2 \in IdPasswords,
               seed \in IdSalts, salt \in IdSalts :
                ENABLED (/\ ProfileUpdatePassword(c, cur, new, new2, seed, salt)
                         /\ IF new # new2 \/ new = Empty
                            THEN resp' = PasswordMismatch /\ users' = users
                            ELSE IF ~check_password_hash(users[session[c]].password_hash, cur)
                            THEN resp' = PasswordIncorrect /\ users' = users
                            ELSE resp' = PasswordUpdated =>
                                    OnlyHashOfUserChanged(users, users', session[c]))

C22_Witness ==
    /\ req.route = "profile_update_password"
    /\ resp = PasswordIncorrect
    /\ Caller # 0
    /\ ~IsAdmin(users, Caller)
    /\ Len(users) = 3

\* C23: no step removes a user, a ticket or a comment; no step changes the
\* title, description, department, subcategory or owner of a stored ticket
\* or its position in the table, nor any field of a stored comment; a
\* ticket_update_status request adds no ticket, changes no ticket other than
\* the one of its path, no comment, no session, and no user.
C23_OnlyStatusOfTargetChanges ==
    [][/\ Len(users') >= Len(users)
       /\ Len(tickets') >= Len(tickets)
       /\ Len(comments') >= Len(comments)
       /\ \A i \in 1..Len(tickets) :
            [tickets'[i] EXCEPT !.status = tickets[i].status] = tickets[i]
       /\ \A k \in 1..Len(comments) : comments'[k] = comments[k]
       /\ req'.route = "ticket_update_status" =>
            /\ Len(tickets') = Len(tickets)
            /\ \A i \in 1..Len(tickets) : i # req'.ticket_id => tickets'[i] = tickets[i]
            /\ comments' = comments
            /\ session' = session
            /\ session[req'.client] # 0 => users' = users]_vars

C23_Witness ==
    /\ req.route = "ticket_update_status"
    /\ resp = StatusUpdated
    /\ Len(tickets) = 3
    /\ tickets[req.ticket_id].status = <<"fechado">>
    /\ \E i \in 1..Len(tickets) : i # req.ticket_id /\ tickets[i].status = <<"aberto">>
    /\ \E k \in 1..Len(comments) : comments[k].ticket_id = req.ticket_id


\* C24: a ticket_update_status or ticket_add_comment request of a non-admin
\* user for a ticket another user owns is never answered with the
\* invalid-status notice or the empty-comment notice: the ownership check
\* comes before the validation of the submitted status or body.
C24_AuthorizationBeforeValidation ==
    (req.route \in {"ticket_update_status", "ticket_add_comment"} /\ CallerIsStranger) =>
        resp \notin {StatusInvalid, CommentEmpty}


\* C25: under concurrent requests interleaved statement by statement on a
\* store without admin@local, no request ends in an IntegrityError that
\* reaches the client untranslated, at most one user holds admin@local, and
\* exactly one does once a request has passed init_db.
C25_SeedIsSafeUnderConcurrency ==
    /\ resp # RawIntegrityError
    /\ Cardinality({i \in 1..Len(users) : users[i].email = ADMIN_EMAIL}) <= 1
    /\ (\E w \in Workers : threads[w].pc = "handler") =>
            Cardinality({i \in 1..Len(users) : users[i].email = ADMIN_EMAIL}) = 1


GatedRoutes ==
    {"tickets", "ticket_new", "ticket_view", "ticket_update_status", "ticket_add_comment",
     "admin_tickets", "profile_update_name", "profile_update_password", "logout"}

\* C26: a request to one of the nine login-gated routes from a client whose
\* session holds no user id is answered with the redirect to the login page,
\* without notice or rows, and leaves every stored user, ticket and comment
\* and the session as they were; the only row such a request can add is
\* init_db's seed account, when the store does not hold it yet.
C26_UnauthenticatedIsRedirected ==
    [][(req'.route \in GatedRoutes /\ session[req'.client] = 0) =>
          /\ resp'.target = "redirect:/login?next"
          /\ resp'.notice = ""
          /\ resp'.tickets = NoRows
          /\ resp'.comments = NoRows
          /\ tickets' = tickets
          /\ comments' = comments
          /\ session' = session
          /\ \/ users' = users
             \/ /\ ~HasEmail(users, ADMIN_EMAIL)
                /\ Len(users') = Len(users) + 1
                /\ SubSeq(users', 1, Len(users)) = users
                /\ users'[Len(users')].email = ADMIN_EMAIL]_vars

C26_Witness ==
    /\ req.route = "ticket_add_comment"
    /\ session[req.client] = 0
    /\ resp.target = "redirect:/login?next"
    /\ req.ticket_id \in 1..Len(tickets)
    /\ Len(users) = 2


\* C27: the user id of every session that holds one, the owner of every
\* stored ticket and the author of every stored comment is the id of a
\* stored user, and current_user finds no row only for a session without a
\* user id.
C27_UserReferencesNeverDangle ==
    /\ \A c \in Clients : session[c] \in 0..Len(users)
    /\ \A i \in 1..Len(tickets) : tickets[i].user_id \in 1..Len(users)
    /\ \A k \in 1..Len(comments) : comments[k].user_id \in 1..Len(users)
    /\ \A c \in Clients : current_user(users, session[c]) = <<>> => session[c] = 0

C27_Witness ==
    /\ Len(users) = 2
    /\ \E c \in Clients : session[c] = 2 /\ current_user(users, session[c]) = <<users[2]>>
    /\ Len(tickets) = 1 /\ tickets[1].user_id = 2
    /\ Len(comments) = 1 /\ comments[1].user_id = 2


\* C28: in every reachable state a profile_update_name request of a
\* logged-in user whose name is empty once stripped is answered with the
\* invalid-name notice and leaves the users table as it is; with any other
\* name it is answered with the success notice and replaces the name of the
\* session's user by the stripped name, every other column of that row and
\* every other row staying as they were. Tickets, comments and the session
\* are left alone in both cases.
C28_NameChangeTouchesOnlyName ==
    \A c \in Clients :
        session[c] # 0 =>
            \A n \in IdNames, seed \in IdSalts :
                ENABLED (/\ ProfileUpdateName(c, n, seed)
                         /\ tickets' = tickets /\ comments' = comments /\ session' = session
                         /\ Len(users') = Len(users)
                         /\ IF Strip(n) = Empty
                            THEN resp' = NameInvalid /\ users' = users
                            ELSE /\ resp' = NameUpdated
                                 /\ \A i \in 1..Len(users) :
                                      IF i = session[c]
                                      THEN /\ users'[i].name = Strip(n)
                                           /\ users'[i].email = users[i].email
                                           /\ users'[i].role = users[i].role
                                           /\ users'[i].password_hash = users[i].password_hash
                                      ELSE users'[i] = users[i])

C28_Witness ==
    /\ req.route = "profile_update_name"
    /\ resp = NameUpdated
    /\ IsAdmin(users, Caller)
    /\ users[Caller].name = <<"Ana">>
    /\ \E i \in 1..Len(users) : i # Caller /\ users[i].name = <<"Ana">>


\* C29: in every reachable state a ticket_update_status request without a
\* status field, sent by the owner of the ticket or by an admin, is answered
\* with the success notice and leaves the ticket with status aberto,
\* whatever status it had; it is not answered with the invalid-status
\* notice.
C29_MissingStatusMeansAberto ==
    \A c \in Clients, t \in 1..Len(tickets) :
        (session[c] # 0 /\ (IsAdmin(users, session[c]) \/ tickets[t].user_id = session[c])) =>
            \A seed \in Salts :
                ENABLED (/\ TicketUpdateStatus(c, t, Missing, seed)
                         /\ resp' = StatusUpdated
                         /\ tickets'[t] = [tickets[t] EXCEPT !.status = <<"aberto">>])

C29_Witness ==
    /\ req.route = "ticket_update_status"
    /\ resp = StatusUpdated
    /\ CallerIsOwner
    /\ tickets[req.ticket_id].status = <<"aberto">>
    /\ Len(comments) = 1

====
